---- MODULE Spec2Model ----
(***************************************************************************)
(* Model of the real-estate assistant: the listings query service of       *)
(* realEstateMCP.py (five operations over a SQLite table "Sacramento")     *)
(* and the chat session of app.py.                                         *)
(*                                                                         *)
(* Python's Optional values are sequences: None is <<>>, a value v is      *)
(* <<v>>.  SQL NULL is the same <<>> when bound as a parameter.            *)
(* Rows are identified by their rowid, the position in the table.          *)
(***************************************************************************)
EXTENDS Integers, Sequences, FiniteSets, TLC

VARIABLES
    table,      \* rows of table Sacramento, in rowid order
    catalog,    \* sqlite catalog: table name -> PRAGMA table_info rows
    pc,         \* position of the service: "idle", "try", "finally", "returned"
    call,       \* the operation in progress (or the last one) and its arguments
    conn,       \* the local variable conn of the call
    openConns,  \* connections opened and not yet closed
    stmts,      \* the statements the call handed to sqlite, in order
    ret,        \* what the call returns or raises
    session_state, \* st.session_state of the chat page: key -> value
    uiPc,       \* position of the page script run
    run         \* the widget values of the page script run

vars == <<table, catalog, pc, call, conn, openConns, stmts, ret, session_state, uiPc, run>>
svcVars == <<table, catalog, pc, call, conn, openConns, stmts, ret>>
uiVars == <<session_state, uiPc, run>>

-----------------------------------------------------------------------------
(* Bounds of the model *)

MaxRows == 3        \* rows of a base table
MaxCopies == 6      \* a base table repeated this often exceeds LIMIT 10
MaxExchanges == 3   \* submissions are accepted until the chat holds this many

(* Program constants *)

Limit == 10         \* LIMIT 10 of find_best_deals

-----------------------------------------------------------------------------
(* Python values *)

None == <<>>
Some(v) == <<v>>

\* `if x:` on an Optional[str]: None and "" are false
TruthyStr(x) == x # None /\ x[1] # ""
\* `if x:` on an Optional number: None and 0 are false
TruthyNum(x) == x # None /\ x[1] # 0

Min(a, b) == IF a <= b THEN a ELSE b

RECURSIVE SeqOf(_)
\* the elements of a set as a list, in the order the store yields them
SeqOf(S) == IF S = {} THEN <<>> ELSE LET x == CHOOSE y \in S : TRUE IN <<x>> \o SeqOf(S \ {x})

-----------------------------------------------------------------------------
(* The store *)

Cities == {"A", "B"}
States == {"CA"}
BedCounts == {2, 3}
Prices == {1, 2}
Coords == {0, 1}    \* whole degrees of latitude and of longitude

Row(c, s, b, p, la, lo) ==
    [city |-> c, state |-> s, beds |-> b, price |-> p, latitude |-> la, longitude |-> lo]

\* rows that differ in the columns the listing filters read
ListingRows == {Row(c, s, b, p, 0, 0) : c \in Cities, s \in States, b \in BedCounts, p \in Prices}
\* rows that differ in the columns the best-deals search reads
DealRows == {Row("A", "CA", b, p, l, l) : b \in BedCounts, p \in Prices, l \in Coords}

\* the tables of up to MaxRows rows, one for each multiset of rows: the order
\* of rowids decides nothing but the order of the rows a SELECT returns
TablesOf(rows) ==
    LET r == SeqOf(rows)
        Ascending(n) == {f \in [1..n -> 1..Len(r)] : \A i \in 1..(n - 1) : f[i] <= f[i + 1]}
    IN  UNION {{[i \in 1..n |-> r[f[i]]] : f \in Ascending(n)} : n \in 0..MaxRows}

RECURSIVE Replicate(_, _)
Replicate(t, k) == IF k = 0 THEN <<>> ELSE t \o Replicate(t, k - 1)

Column(cid, name, type) ==
    [cid |-> cid, name |-> name, type |-> type, notnull |-> 0, dflt_value |-> None, pk |-> 0]

SacramentoColumns ==
    << Column(0, "city", "TEXT"), Column(1, "state", "TEXT"), Column(2, "beds", "INTEGER"),
       Column(3, "price", "INTEGER"), Column(4, "latitude", "REAL"),
       Column(5, "longitude", "REAL") >>

SacramentoCatalog == [n \in {"Sacramento"} |-> SacramentoColumns]

\* SELECT name FROM sqlite_master WHERE type='table'
TableNames(cat) == DOMAIN cat

\* PRAGMA table_info(name): the columns of the table, no row (and no error)
\* for a name the catalog does not hold
TableInfo(cat, name) == IF name \in DOMAIN cat THEN cat[name] ELSE <<>>

\* 6371 * acos(cos(lat1) cos(lat2) cos(lon2 - lon1) + sin(lat1) sin(lat2)) in
\* kilometres, rounded up to a whole kilometre, for whole degrees in Coords:
\* 111.18 .. 111.19 km when one coordinate differs by a degree, 157.25 km when
\* both do.  NULL when a bound coordinate is NULL.
Distance(lat, lon, lat3, rowLat, rowLon) ==
    IF lat = None \/ lon = None \/ lat3 = None THEN None
    ELSE IF lat[1] = rowLat /\ lon[1] = rowLon THEN Some(0)
    ELSE IF lat[1] = rowLat \/ lon[1] = rowLon THEN Some(112)
    ELSE Some(158)

-----------------------------------------------------------------------------
(* Statements *)

Lit(s) == [kind |-> "literal", text |-> s]
Interpolated(origin, v) == [kind |-> origin, text |-> v]

RECURSIVE JoinAnd(_)
\* " AND ".join(conditions)
JoinAnd(conds) ==
    IF Len(conds) = 0 THEN <<>>
    ELSE IF Len(conds) = 1 THEN <<Lit(conds[1])>>
    ELSE <<Lit(conds[1]), Lit(" AND ")>> \o JoinAnd(Tail(conds))

\* `if conditions: query += " WHERE " + " AND ".join(conditions)`
WhereClause(conds) == IF Len(conds) = 0 THEN <<>> ELSE <<Lit(" WHERE ")>> \o JoinAnd(conds)

\* a statement: its text (pieces in order), the predicates of its WHERE clause,
\* the number of placeholders of its select list, the bound parameters
Statement(text, conds, nSelect, params, ordered) ==
    [text |-> text, conditions |-> conds, selectParams |-> nSelect, params |-> params,
     orderLimit |-> ordered]

\* SQL comparison of a column with a bound parameter; NULL compares false
SqlHolds(cond, row, p, distance) ==
    IF p = None THEN FALSE
    ELSE CASE cond = "city = ?" -> row.city = p[1]
           [] cond = "state = ?" -> row.state = p[1]
           [] cond = "beds >= ?" -> row.beds >= p[1]
           [] cond = "beds = ?" -> row.beds = p[1]
           [] cond = "price <= ?" -> row.price <= p[1]
           [] cond = "distance <= ?" -> distance # None /\ distance[1] <= p[1]

\* the derived column `distance` of a row, NULL when the statement has none
DistanceColumn(s, row) ==
    IF s.selectParams = 3
    THEN Distance(s.params[1], s.params[2], s.params[3], row.latitude, row.longitude)
    ELSE None

\* the WHERE clause of statement s on a row: placeholders bind in order
RowMatches(s, row) ==
    \A i \in 1..Len(s.conditions) :
        SqlHolds(s.conditions[i], row, s.params[s.selectParams + i], DistanceColumn(s, row))

RECURSIVE Matching(_, _, _)
\* rowids of the rows of t the WHERE clause of s keeps, from rowid i on
Matching(s, t, i) ==
    IF i > Len(t) THEN <<>>
    ELSE (IF RowMatches(s, t[i]) THEN <<i>> ELSE <<>>) \o Matching(s, t, i + 1)

RECURSIVE InsertByPriceDescending(_, _, _)
\* the order a statement with ORDER BY price DESC would give
InsertByPriceDescending(t, sorted, id) ==
    IF sorted = <<>> THEN <<id>>
    ELSE IF t[id].price > t[Head(sorted)].price THEN <<id>> \o sorted
    ELSE <<Head(sorted)>> \o InsertByPriceDescending(t, Tail(sorted), id)

RECURSIVE InsertByPrice(_, _, _)
InsertByPrice(t, sorted, id) ==
    IF sorted = <<>> THEN <<id>>
    ELSE IF t[id].price < t[Head(sorted)].price THEN <<id>> \o sorted
    ELSE <<Head(sorted)>> \o InsertByPrice(t, Tail(sorted), id)

RECURSIVE OrderByPrice(_, _)
\* ORDER BY price ASC; rows of equal price keep their rowid order
OrderByPrice(t, ids) ==
    IF ids = <<>> THEN <<>>
    ELSE InsertByPrice(t, OrderByPrice(t, SubSeq(ids, 1, Len(ids) - 1)), ids[Len(ids)])

\* LIMIT n
Take(ids, n) == SubSeq(ids, 1, Min(n, Len(ids)))

\* the rowids a SELECT statement returns
Select(s, t) ==
    IF s.orderLimit THEN Take(OrderByPrice(t, Matching(s, t, 1)), Limit)
    ELSE Matching(s, t, 1)

RECURSIVE SumPrice(_, _)
SumPrice(t, ids) == IF ids = <<>> THEN 0 ELSE t[Head(ids)].price + SumPrice(t, Tail(ids))

\* round(x, 2) of x = num / den, in hundredths: to nearest, ties to even
Round2(num, den) ==
    LET q == (100 * num) \div den
        r == (100 * num) % den
    IN  IF 2 * r > den \/ (2 * r = den /\ q % 2 = 1) THEN q + 1 ELSE q

-----------------------------------------------------------------------------
(* Caller-supplied arguments *)

OptCity == {None, Some(""), Some("A"), Some("B")}
OptState == {None, Some(""), Some("CA")}
OptBeds == {None, Some(0), Some(3)}
OptPrice == {None, Some(0), Some(1)}
OptCoord == {None} \cup {Some(c) : c \in Coords}
\* the database holds no table Agents
OptTableName == {None, Some("Sacramento"), Some("Agents")}

QueryArgs == [city : OptCity, state : OptState, min_beds : OptBeds, max_price : OptPrice]
AverageArgs == [city : OptCity, state : OptState, beds : OptBeds]
DealArgs == [max_price : Prices, min_beds : BedCounts, max_distance : {10, 120},
             reference_lat : OptCoord, reference_lon : OptCoord]
DescribeArgs == [table_name : OptTableName]

-----------------------------------------------------------------------------
(* query_listings *)

\* `if city: conditions.append("city = ?"); params.append(city)`
StrFilter(x, cond) ==
    IF TruthyStr(x) THEN [conditions |-> <<cond>>, params |-> <<x>>]
    ELSE [conditions |-> <<>>, params |-> <<>>]

\* `if min_beds: conditions.append("beds >= ?"); params.append(min_beds)`
NumFilter(x, cond) ==
    IF TruthyNum(x) THEN [conditions |-> <<cond>>, params |-> <<x>>]
    ELSE [conditions |-> <<>>, params |-> <<>>]

Filters(fs) ==
    [conditions |-> fs[1].conditions \o fs[2].conditions \o fs[3].conditions \o fs[4].conditions,
     params |-> fs[1].params \o fs[2].params \o fs[3].params \o fs[4].params]

NoFilter == [conditions |-> <<>>, params |-> <<>>]

ListingsStatement(a) ==
    LET f == Filters(<< StrFilter(a.city, "city = ?"), StrFilter(a.state, "state = ?"),
                        NumFilter(a.min_beds, "beds >= ?"), NumFilter(a.max_price, "price <= ?") >>)
    IN  Statement(<<Lit("SELECT * FROM Sacramento")>> \o WhereClause(f.conditions),
                  f.conditions, 0, f.params, FALSE)

-----------------------------------------------------------------------------
(* calculate_average_price *)

AverageStatement(a) ==
    LET f == Filters(<< StrFilter(a.city, "city = ?"), StrFilter(a.state, "state = ?"),
                        NumFilter(a.beds, "beds = ?"), NoFilter >>)
    IN  Statement(<<Lit("SELECT AVG(price) as avg_price, COUNT(*) as total_listings FROM Sacramento")>>
                      \o WhereClause(f.conditions),
                  f.conditions, 0, f.params, FALSE)

\* AVG(price) is NULL over no row; round(result[0], 2) otherwise, in hundredths
AverageResult(s, t) ==
    LET ids == Matching(s, t, 1)
        n == Len(ids)
    IN  [average_price |-> IF n = 0 THEN None ELSE Some(Round2(SumPrice(t, ids), n)),
         total_listings |-> n]

-----------------------------------------------------------------------------
(* find_best_deals *)

\* the condition with `or` in place of `and`
HasAnyCoordinate(a) == TruthyNum(a.reference_lat) \/ TruthyNum(a.reference_lon)

\* `if reference_lat and reference_lon:`
HasReferencePoint(a) == TruthyNum(a.reference_lat) /\ TruthyNum(a.reference_lon)

SimpleDealsStatement(a) ==
    Statement(<< Lit("SELECT * FROM Sacramento WHERE price <= ? AND beds >= ?"),
                 Lit(" ORDER BY price ASC LIMIT 10") >>,
              <<"price <= ?", "beds >= ?">>, 0,
              <<Some(a.max_price), Some(a.min_beds)>>, TRUE)

DistanceDealsStatement(a) ==
    Statement(<< Lit("SELECT *, (6371 * acos(cos(radians(?)) * cos(radians(latitude)) * cos(radians(longitude) - radians(?)) + sin(radians(?)) * sin(radians(latitude)))) AS distance FROM Sacramento WHERE price <= ? AND beds >= ? AND distance <= ?"),
                 Lit(" ORDER BY price ASC LIMIT 10") >>,
              <<"price <= ?", "beds >= ?", "distance <= ?">>, 3,
              << a.reference_lat, a.reference_lon, a.reference_lat,
                 Some(a.max_price), Some(a.min_beds), Some(a.max_distance) >>, TRUE)

DealsStatement(a) ==
    IF HasReferencePoint(a) THEN DistanceDealsStatement(a) ELSE SimpleDealsStatement(a)

-----------------------------------------------------------------------------
(* describe_columns and get_database_schema *)

MasterStatement ==
    Statement(<<Lit("SELECT name FROM sqlite_master WHERE type='table';")>>, <<>>, 0, <<>>, FALSE)

\* f"PRAGMA table_info({table_name});"
PragmaStatement(origin, name) ==
    Statement(<<Lit("PRAGMA table_info("), Interpolated(origin, name), Lit(");")>>,
              <<>>, 0, <<>>, FALSE)

\* `if not table_name:` all tables of the catalog, else the one named
DescribedTables(a, cat) ==
    IF ~TruthyStr(a.table_name)
    THEN [origin |-> "catalog", names |-> SeqOf(TableNames(cat))]
    ELSE [origin |-> "argument", names |-> <<a.table_name[1]>>]

DescribeStatements(a, cat) ==
    LET d == DescribedTables(a, cat)
    IN  (IF d.origin = "catalog" THEN <<MasterStatement>> ELSE <<>>)
        \o [i \in 1..Len(d.names) |-> PragmaStatement(d.origin, d.names[i])]

ColumnDescription(c) ==
    [name |-> c.name, type |-> c.type,
     nullable |-> IF c.notnull = 0 THEN "Yes" ELSE "No",
     default |-> IF c.dflt_value = None THEN "None" ELSE c.dflt_value[1],
     primary_key |-> IF c.pk = 1 THEN "Yes" ELSE "No"]

Description(a, cat) ==
    LET d == DescribedTables(a, cat)
    IN  [i \in 1..Len(d.names) |->
            [table |-> d.names[i],
             columns |-> [j \in 1..Len(TableInfo(cat, d.names[i])) |->
                             ColumnDescription(TableInfo(cat, d.names[i])[j])]]]

SchemaStatements(cat) ==
    LET names == SeqOf(TableNames(cat))
    IN  <<MasterStatement>> \o [i \in 1..Len(names) |-> PragmaStatement("catalog", names[i])]

SchemaDescription(cat) ==
    LET names == SeqOf(TableNames(cat))
    IN  [i \in 1..Len(names) |->
            [table |-> names[i],
             columns |-> [j \in 1..Len(TableInfo(cat, names[i])) |->
                             [name |-> TableInfo(cat, names[i])[j].name,
                              type |-> TableInfo(cat, names[i])[j].type]]]]

-----------------------------------------------------------------------------
(* The service: one call at a time *)

NoCall == [op |-> "none", args |-> None]
NoRet == [status |-> "none", value |-> None]
Returns(v) == [status |-> "return", value |-> v]
Raises(e) == [status |-> "raise", value |-> e]

\* sqlite3.connect: a new connection object
NewConn(open) == CHOOSE c \in 1..(Cardinality(open) + 1) : c \notin open

\* entry of a handler: `conn = get_db_connection()`
Connect(op, a) ==
    /\ pc = "idle"
    /\ pc' = "try"
    /\ call' = [op |-> op, args |-> a]
    /\ conn' = NewConn(openConns)
    /\ openConns' = openConns \cup {NewConn(openConns)}
    /\ stmts' = <<>>
    /\ ret' = NoRet
    /\ UNCHANGED <<table, catalog, uiVars>>

\* the try block ran these statements and returns v, or sqlite raised on the
\* first of them
TryBlock(op, ss, v) ==
    /\ pc = "try"
    /\ call.op = op
    /\ pc' = "finally"
    /\ \/ stmts' = ss /\ ret' = Returns(v)
       \/ stmts' = SubSeq(ss, 1, 1) /\ ret' = Raises("sqlite3.OperationalError")
    /\ UNCHANGED <<table, catalog, call, conn, openConns, uiVars>>

CallGetDatabaseSchema == Connect("get_database_schema", None)
CallQueryListings == \E a \in QueryArgs : Connect("query_listings", a)
CallDescribeColumns == \E a \in DescribeArgs : Connect("describe_columns", a)
CallCalculateAveragePrice == \E a \in AverageArgs : Connect("calculate_average_price", a)
CallFindBestDeals == \E a \in DealArgs : Connect("find_best_deals", a)

GetDatabaseSchema ==
    TryBlock("get_database_schema", SchemaStatements(catalog), SchemaDescription(catalog))

QueryListings ==
    TryBlock("query_listings", <<ListingsStatement(call.args)>>,
             Select(ListingsStatement(call.args), table))

DescribeColumns ==
    TryBlock("describe_columns", DescribeStatements(call.args, catalog),
             Description(call.args, catalog))

CalculateAveragePrice ==
    TryBlock("calculate_average_price", <<AverageStatement(call.args)>>,
             AverageResult(AverageStatement(call.args), table))

FindBestDeals ==
    TryBlock("find_best_deals", <<DealsStatement(call.args)>>,
             Select(DealsStatement(call.args), table))

\* a handler that closes the connection after the try block instead of in a
\* finally block: an exception skips the close
CloseWithoutFinally ==
    /\ pc = "finally"
    /\ pc' = "returned"
    /\ openConns' = IF ret.status = "raise" THEN openConns ELSE openConns \ {conn}
    /\ UNCHANGED <<table, catalog, call, conn, stmts, ret, uiVars>>

\* `finally: conn.close()`
Finally ==
    /\ pc = "finally"
    /\ pc' = "returned"
    /\ openConns' = openConns \ {conn}
    /\ UNCHANGED <<table, catalog, call, conn, stmts, ret, uiVars>>

\* the value or the exception has reached the caller; the server waits for the
\* next call, the locals of the handler are gone
Return ==
    /\ pc = "returned"
    /\ pc' = "idle"
    /\ call' = NoCall
    /\ conn' = 0
    /\ stmts' = <<>>
    /\ ret' = NoRet
    /\ UNCHANGED <<table, catalog, openConns, uiVars>>

ServiceInit(tables) ==
    /\ table \in tables
    /\ catalog = SacramentoCatalog
    /\ pc = "idle"
    /\ call = NoCall
    /\ conn = 0
    /\ openConns = {}
    /\ stmts = <<>>
    /\ ret = NoRet

ListingTables == TablesOf(ListingRows)
DealTables == {Replicate(t, k) : t \in TablesOf(DealRows), k \in {1, MaxCopies}}

-----------------------------------------------------------------------------
(* The chat page: main() of app.py runs top to bottom on every event *)

GreetingText == "As-salamu alaykum! I'm your Islamic Real Estate Assistant. How can I help you find your perfect halal home today?"
Greeting == [role |-> "ai", content |-> GreetingText]

UserInputs == {"", "3 beds in Sacramento", "near a mosque"}
\* the event that starts a run: opening or refreshing the page, toggling the
\* filter checkbox, clicking Clear Chat, sending the form
Events == {"load", "toggle", "clear", "send"}
Runs == [event : Events, user_input : UserInputs, use_filters : BOOLEAN]
NoRun == [event |-> "none", user_input |-> "", use_filters |-> FALSE]

\* `if 'messages' not in st.session_state:` and `if 'use_filters' not in ...`
InitSession(ss) ==
    IF "messages" \in DOMAIN ss THEN ss
    ELSE [messages |-> <<Greeting>>, use_filters |-> FALSE]

\* the sidebar: the checkbox value is stored, Clear Chat resets the messages
Sidebar(ss, r) ==
    [messages |-> IF r.event = "clear" THEN <<Greeting>> ELSE ss.messages,
     use_filters |-> r.use_filters]

\* `if submit_button and user_input:`
Submitted(r) == r.event = "send" /\ r.user_input # ""

\* the values a widget event can carry into a run: only a toggle changes the
\* checkbox, only a send carries the text of the form
RunOf(ss, r) ==
    /\ r \in Runs
    /\ r.event # "send" => r.user_input = ""
    /\ r.event # "toggle" =>
          r.use_filters = IF "use_filters" \in DOMAIN ss THEN ss.use_filters ELSE FALSE

\* a run that sends nothing: the script reaches its end
PageRun ==
    /\ uiPc = "idle"
    /\ \E r \in Runs :
          /\ RunOf(session_state, r)
          /\ ~Submitted(r)
          /\ run' = r
          /\ session_state' = Sidebar(InitSession(session_state), r)
    /\ uiPc' = "idle"
    /\ UNCHANGED svcVars

\* a run that sends a message, up to the call of the assistant
SubmitMessage ==
    /\ uiPc = "idle"
    /\ "messages" \in DOMAIN session_state =>
          Len(session_state.messages) < 1 + 2 * MaxExchanges
    /\ \E r \in Runs :
          /\ RunOf(session_state, r)
          /\ Submitted(r)
          /\ run' = r
          /\ session_state' =
                [Sidebar(InitSession(session_state), r) EXCEPT
                    !.messages = Append(@, [role |-> "user", content |-> r.user_input])]
    /\ uiPc' = "process_query"
    /\ UNCHANGED svcVars

\* RealEstateAssistant.process_query: the last AI message of the agent's
\* response, or the text of the exception the agent raised
AgentOutcomes == {"response", "exception"}
ProcessQueryResult(outcome) ==
    IF outcome = "exception" THEN "Oops! Search encountered an issue" ELSE "agent answer"

\* process_query without its `except Exception`: the exception of the agent
\* ends the run before the answer is appended
ProcessQueryUncaught ==
    /\ uiPc = "process_query"
    /\ \E outcome \in AgentOutcomes :
          IF outcome = "exception"
          THEN session_state' = session_state /\ uiPc' = "idle"
          ELSE /\ session_state' =
                    [session_state EXCEPT
                        !.messages = Append(@, [role |-> "ai", content |-> "agent answer"])]
               /\ uiPc' = "rerun"
    /\ UNCHANGED <<run, svcVars>>

\* process_query returns; the answer is appended; st.rerun() is reached
ProcessQuery ==
    /\ uiPc = "process_query"
    /\ \E outcome \in AgentOutcomes :
          session_state' =
              [session_state EXCEPT
                  !.messages = Append(@, [role |-> "ai", content |-> ProcessQueryResult(outcome)])]
    /\ uiPc' = "rerun"
    /\ UNCHANGED <<run, svcVars>>

\* st.rerun(): the script runs again, with no event
Rerun ==
    /\ uiPc = "rerun"
    /\ run' = [event |-> "rerun", user_input |-> "", use_filters |-> session_state.use_filters]
    /\ session_state' = Sidebar(InitSession(session_state), run')
    /\ uiPc' = "idle"
    /\ UNCHANGED svcVars

ChatInit ==
    /\ session_state = <<>>
    /\ uiPc = "idle"
    /\ run = NoRun

-----------------------------------------------------------------------------
(* Specifications *)

\* the query service over small tables of listings
Init == ServiceInit(ListingTables) /\ ChatInit

Next ==
    \/ CallGetDatabaseSchema
    \/ CallQueryListings
    \/ CallDescribeColumns
    \/ CallCalculateAveragePrice
    \/ CallFindBestDeals
    \/ GetDatabaseSchema
    \/ QueryListings
    \/ DescribeColumns
    \/ CalculateAveragePrice
    \/ FindBestDeals
    \/ Finally
    \/ Return

Spec == Init /\ [][Next]_vars

\* the best-deals search over tables of up to more than LIMIT rows
InitDeals == ServiceInit(DealTables) /\ ChatInit

NextDeals ==
    \/ CallFindBestDeals
    \/ FindBestDeals
    \/ Finally
    \/ Return

SpecDeals == InitDeals /\ [][NextDeals]_vars

\* the chat page
InitChat == ServiceInit({<<>>}) /\ ChatInit

NextChat ==
    \/ PageRun
    \/ SubmitMessage
    \/ ProcessQuery
    \/ Rerun

SpecChat == InitChat /\ [][NextChat]_vars

-----------------------------------------------------------------------------
(* Properties *)

\* the call of operation op has computed the value it returns
Returned(op) == pc \in {"finally", "returned"} /\ call.op = op /\ ret.status = "return"
\* the call of operation op has left its try block, by a value or an exception
Left(op) == pc \in {"finally", "returned"} /\ call.op = op

Range(f) == {f[i] : i \in DOMAIN f}
Predicates == {"city = ?", "state = ?", "beds >= ?", "beds = ?", "price <= ?", "distance <= ?"}

\* the filter fields a caller supplied: every field that is not None
Supplied(a) == {f \in DOMAIN a : a[f] # None}
\* the predicates that stand in the text of a statement
PredicatesInText(s) == {i \in DOMAIN s.text : s.text[i].text \in Predicates}
HasWhere(s) == \E i \in DOMAIN s.text : s.text[i] = Lit(" WHERE ")

\* C1: in query_listings and calculate_average_price the WHERE clause holds
\* exactly one predicate per supplied filter field (0 and "" are supplied
\* values), and there is no WHERE clause when no field is supplied.
C1_PredicatePerSuppliedField ==
    Left("query_listings") \/ Left("calculate_average_price") =>
        /\ Cardinality(PredicatesInText(stmts[1])) = Cardinality(Supplied(call.args))
        /\ Len(stmts[1].conditions) = Cardinality(Supplied(call.args))
        /\ Supplied(call.args) = {} => ~HasWhere(stmts[1])

\* a row satisfies every constraint the caller of query_listings supplied
ListingWanted(a, row) ==
    /\ a.city # None => row.city = a.city[1]
    /\ a.state # None => row.state = a.state[1]
    /\ a.min_beds # None => row.beds >= a.min_beds[1]
    /\ a.max_price # None => row.price <= a.max_price[1]

\* C2: query_listings returns exactly the rows that satisfy all supplied
\* constraints: every row without a filter, the rows of beds >= 3 for
\* min_beds = 3 alone.
C2_ListingsExactlyTheMatches ==
    Returned("query_listings") =>
        /\ Range(ret.value) = {i \in DOMAIN table : ListingWanted(call.args, table[i])}
        /\ Len(ret.value) = Cardinality(Range(ret.value))

\* C3: find_best_deals returns at most 10 rows, in non-decreasing order of
\* price, each satisfying the filter of the statement, and no row that
\* satisfies it and was left out is cheaper than a returned row; rows are left
\* out only when 10 are returned.
C3_BestDealsCheapestTen ==
    Returned("find_best_deals") =>
        LET got == ret.value
            qualifying == {i \in DOMAIN table : RowMatches(stmts[1], table[i])}
        IN  /\ Len(got) <= 10
            /\ \A i \in 1..(Len(got) - 1) : table[got[i]].price <= table[got[i + 1]].price
            /\ Len(got) = Cardinality(Range(got))
            /\ Range(got) \subseteq qualifying
            /\ \A j \in qualifying \ Range(got) :
                  /\ Len(got) = 10
                  /\ \A i \in Range(got) : table[i].price <= table[j].price

\* a call that returned 10 rows of two prices, within a distance, and left a
\* qualifying row out
C3_Witness ==
    /\ Returned("find_best_deals")
    /\ HasReferencePoint(call.args)
    /\ Len(ret.value) = 10
    /\ table[ret.value[1]].price < table[ret.value[10]].price
    /\ \E j \in DOMAIN table : RowMatches(stmts[1], table[j]) /\ j \notin Range(ret.value)
    /\ \E j \in DOMAIN table : ~RowMatches(stmts[1], table[j])

ExactlyOneCoordinate(a) == (a.reference_lat = None) # (a.reference_lon = None)
WithoutReference(a) == [a EXCEPT !.reference_lat = None, !.reference_lon = None]

\* C4: with exactly one of reference_lat and reference_lon supplied,
\* find_best_deals runs the statement of the call without a reference point
\* (price <= max_price AND beds >= min_beds, no distance column, no distance
\* predicate) and returns what that call returns.
C4_PartialReferenceIgnored ==
    Left("find_best_deals") /\ ExactlyOneCoordinate(call.args) =>
        /\ stmts = <<DealsStatement(WithoutReference(call.args))>>
        /\ stmts[1].conditions = <<"price <= ?", "beds >= ?">>
        /\ stmts[1].params = <<Some(call.args.max_price), Some(call.args.min_beds)>>
        /\ stmts[1].selectParams = 0
        /\ ret.status = "return" =>
              ret.value = Select(DealsStatement(WithoutReference(call.args)), table)

\* a call with a non-zero latitude alone, over a table with a row that the
\* distance predicate would have dropped
C4_Witness ==
    /\ Returned("find_best_deals")
    /\ call.args.reference_lat = Some(1)
    /\ call.args.reference_lon = None
    /\ \E i \in Range(ret.value) : table[i].latitude # 1

\* C5: with both reference_lat and reference_lon supplied (0 included), every
\* row find_best_deals returns is within max_price, min_beds and max_distance
\* of the reference point.
C5_ReferencePointFiltersByDistance ==
    /\ Returned("find_best_deals")
    /\ call.args.reference_lat # None
    /\ call.args.reference_lon # None
    => \A i \in Range(ret.value) :
          /\ table[i].price <= call.args.max_price
          /\ table[i].beds >= call.args.min_beds
          /\ Distance(call.args.reference_lat, call.args.reference_lon,
                      call.args.reference_lat, table[i].latitude, table[i].longitude)[1]
                <= call.args.max_distance

\* C6: describe_columns fails for a table_name the catalog does not hold, and
\* returns the non-empty column list of an existing table without rows.
C6_UnknownTableFails ==
    Left("describe_columns") /\ call.args.table_name # None =>
        /\ call.args.table_name[1] \notin TableNames(catalog) => ret.status = "raise"
        /\ (/\ call.args.table_name[1] \in TableNames(catalog)
            /\ table = <<>>
            /\ ret.status = "return")
           => Len(ret.value) = 1 /\ Len(ret.value[1].columns) > 0

\* a row satisfies every constraint the caller of calculate_average_price supplied
AverageWanted(a, row) ==
    /\ a.city # None => row.city = a.city[1]
    /\ a.state # None => row.state = a.state[1]
    /\ a.beds # None => row.beds = a.beds[1]

\* C7: calculate_average_price returns {average_price: null, total_listings: 0}
\* when no row satisfies the supplied filters, and the number of rows that
\* satisfy them as total_listings otherwise.
C7_AverageOfNoRowIsNull ==
    Returned("calculate_average_price") =>
        LET n == Cardinality({i \in DOMAIN table : AverageWanted(call.args, table[i])})
        IN  /\ n = 0 => ret.value = [average_price |-> None, total_listings |-> 0]
            /\ n > 0 => ret.value.total_listings = n

\* C8: a call holds exactly one open connection, its own, from its entry to
\* its finally block, and none is open once a call has returned or raised.
C8_ConnectionScopedToCall ==
    /\ pc \in {"try", "finally"} => openConns = {conn}
    /\ pc \in {"returned", "idle"} => openConns = {}

\* a call that raised has given control back
C8_Witness == pc = "returned" /\ ret.status = "raise" /\ stmts # <<>>

\* C9: no piece of the text of a statement is a value the caller supplied.
C9_NoArgumentInStatementText ==
    \A i \in DOMAIN stmts : \A j \in DOMAIN stmts[i].text :
        stmts[i].text[j].kind # "argument"

HasMessages == "messages" \in DOMAIN session_state
Odd(n) == n % 2 = 1

\* the message list starts with the greeting and alternates ai, user, ai, ...;
\* it ends with an ai message whenever no run is under way
ChatShape ==
    HasMessages =>
        LET m == session_state.messages
        IN  /\ Len(m) >= 1
            /\ m[1] = Greeting
            /\ \A i \in DOMAIN m : m[i].role = IF Odd(i) THEN "ai" ELSE "user"
            /\ uiPc = "idle" => Odd(Len(m))

\* what one step of the page does to the message list
ChatStep ==
    LET before == IF HasMessages THEN session_state.messages ELSE <<Greeting>>
        after == session_state'.messages
    IN  /\ uiPc = "idle" /\ uiPc' = "idle" =>
              after = IF run'.event = "clear" THEN <<Greeting>> ELSE before
        /\ uiPc = "idle" /\ uiPc' = "process_query" =>
              /\ run'.user_input # ""
              /\ after = Append(IF run'.event = "clear" THEN <<Greeting>> ELSE before,
                                [role |-> "user", content |-> run'.user_input])
        /\ uiPc = "process_query" =>
              /\ Len(after) = Len(before) + 1
              /\ SubSeq(after, 1, Len(before)) = before
              /\ after[Len(after)].role = "ai"
        /\ uiPc = "rerun" => after = before

====
